---- MODULE Spec2Model ----
(***************************************************************************)
(* Model of the walter_spl_meter firmware: the DecibelMeter I2C driver     *)
(* (DecibelMeter.cpp) and the sketch's setup()/loop() (walter_spl_meter    *)
(* .ino).  Every call into the Wire, modem and display libraries is one    *)
(* step; results of library calls are chosen nondeterministically.         *)
(***************************************************************************)
EXTENDS Integers, Sequences, FiniteSets, TLC

VARIABLES
    pc,        \* position of the sketch ("driver" while inside a DecibelMeter method)
    retpc,     \* position the running DecibelMeter method returns to
    dataBuf,   \* uint8_t dataBuf[PACKET_SIZE]
    rsp,       \* static WalterModemRsp rsp of loop(): the cell information
    db,        \* loop() local
    dbmin,     \* loop() local
    dbmax,     \* loop() local
    regState,  \* lteConnect() local
    display,   \* what the OLED shows
    efuseMac,  \* the board's MAC address (hardware, never written)
    dmethod,   \* DecibelMeter method last called: [name, arg]
    dactive,   \* TRUE while that method is running
    dpos,      \* index of the next Wire call of the running method
    dret,      \* bytes returned by _wire.read() during the method
    bus,       \* Wire calls made by the method, in order
    regPtr,    \* register the sensor was last addressed at
    lastOp,    \* last status-returning library call and its result
    lteRet,    \* what lteConnect() returned in this boot ("none" before)
    bootlog,   \* boot stages completed in this boot
    iterlog,   \* steps executed by the current loop() iteration
    sensed,    \* bytes the sensor returned in this iteration, by register
    sent,      \* packet handed to socketSend in this iteration
    prevSensed,\* bytes the sensor returned in the iteration before
    macRead    \* TRUE once esp_read_mac ran in this boot

vars == <<pc, retpc, dataBuf, rsp, db, dbmin, dbmax, regState, display, efuseMac,
          dmethod, dactive, dpos, dret, bus, regPtr, lastOp, lteRet, bootlog,
          iterlog, sensed, sent, prevSensed, macRead>>

sketchVars == <<dataBuf, rsp, db, dbmin, dbmax, regState, display, lastOp, lteRet,
                bootlog, iterlog, sent, macRead>>

driverVars == <<dmethod, dactive, dpos, dret, bus, regPtr>>

-----------------------------------------------------------------------------
(* Bounds of the model *)

MaxSensorLevel == 1
NumMacs == 2
NumCells == 2

(* Program constants *)

PACKET_SIZE == 20
DBM_ADDR == 72
DBM_REG_VERSION == 0
DBM_REG_ID3 == 1
DBM_REG_ID2 == 2
DBM_REG_ID1 == 3
DBM_REG_ID0 == 4
DBM_REG_TAVG_HIGH == 7
DBM_REG_TAVG_LOW == 8
DBM_REG_RESET == 9
DBM_REG_DECIBEL == 10
DBM_REG_MIN == 11
DBM_REG_MAX == 12

Byte(n) == n % 256

\* bytes _wire.read() can return
SensorVals == {Byte(k * 100) : k \in 0..MaxSensorLevel}

\* MAC addresses of the boards considered
MacOf(k) == [i \in 0..5 |-> Byte(k * 40 + i * 7 + 1)]
Macs == {MacOf(k) : k \in 1..NumMacs}

\* cell information the modem can report; rsrp in tenths of dBm
CellOf(k) == [cc |-> 200 + k, nc |-> k, tac |-> 256 * k + 3,
              cid |-> 16777216 * k + 65536 * 2 + 256 * k + 5, rsrp |-> -(900 + 7 * k)]
Cells == {CellOf(k) : k \in 1..NumCells}
NoCell == [cc |-> 0, nc |-> 0, tac |-> 0, cid |-> 0, rsrp |-> 0]

RegStates == {"NOT_SEARCHING", "REGISTERED_HOME", "SEARCHING", "DENIED",
              "UNKNOWN", "REGISTERED_ROAMING"}

NoOp == [name |-> "none", ok |-> TRUE]
NoMethod == [name |-> "none", arg |-> 0]
NoSensed == [r \in {DBM_REG_DECIBEL, DBM_REG_MIN, DBM_REG_MAX} |-> -1]

-----------------------------------------------------------------------------
(* DecibelMeter driver.  A method's body is the sequence of Wire calls it  *)
(* makes; WireStep executes them one at a time.                            *)

\* the read retried once
readRegister_retry(regaddr) ==
    << <<"beginTransmission", DBM_ADDR>>,
       <<"write", regaddr>>,
       <<"endTransmission">>,
       <<"requestFrom", DBM_ADDR, 1>>,
       <<"delay", 10>>,
       <<"read">>,
       <<"requestFrom", DBM_ADDR, 1>>,
       <<"delay", 10>>,
       <<"read">> >>

\* uint8_t DecibelMeter::readRegister(uint8_t regaddr)
readRegister(regaddr) ==
    << <<"beginTransmission", DBM_ADDR>>,
       <<"write", regaddr>>,
       <<"endTransmission">>,
       <<"requestFrom", DBM_ADDR, 1>>,
       <<"delay", 10>>,
       <<"read">> >>

\* void DecibelMeter::writeRegister(uint8_t regaddr, uint8_t value)
writeRegister(regaddr, value) ==
    << <<"beginTransmission", DBM_ADDR>>,
       <<"write", regaddr>>,
       <<"write", value>>,
       <<"endTransmission">> >>

\* bool DecibelMeter::begin(): _wire.begin(_sda, _scl, _frequency)
begin == << <<"begin", 10, 9, 10000>> >>

getVersion == readRegister(DBM_REG_VERSION)

\* id[0..3] are the four bytes read, in this order
getID ==
    readRegister(DBM_REG_ID3) \o readRegister(DBM_REG_ID2)
        \o readRegister(DBM_REG_ID1) \o readRegister(DBM_REG_ID0)

readDecibel == readRegister(DBM_REG_DECIBEL)

readMinDecibel == readRegister(DBM_REG_MIN)

readMaxDecibel == readRegister(DBM_REG_MAX)

setAveragingInterval(intervalMs) ==
    LET highByte == (intervalMs \div 256) % 256
        lowByte == intervalMs % 256
    IN  writeRegister(DBM_REG_TAVG_HIGH, highByte)
            \o writeRegister(DBM_REG_TAVG_LOW, lowByte)

resetMinMax == writeRegister(DBM_REG_RESET, 2)

\* the public methods of class DecibelMeter
Body(m) ==
    CASE m.name = "begin" -> begin
      [] m.name = "getVersion" -> getVersion
      [] m.name = "getID" -> getID
      [] m.name = "readDecibel" -> readDecibel
      [] m.name = "readMinDecibel" -> readMinDecibel
      [] m.name = "readMaxDecibel" -> readMaxDecibel
      [] m.name = "setAveragingInterval" -> setAveragingInterval(m.arg)
      [] m.name = "resetMinMax" -> resetMinMax
      [] OTHER -> << >>

\* entering a DecibelMeter method
Call(name, arg, ret) ==
    /\ ~dactive
    /\ dmethod' = [name |-> name, arg |-> arg]
    /\ dactive' = TRUE
    /\ dpos' = 1
    /\ dret' = << >>
    /\ bus' = << >>
    /\ pc' = "driver"
    /\ retpc' = ret
    /\ UNCHANGED regPtr

\* one Wire call of the running method; read() returns what the sensor holds
WireStep ==
    /\ dactive
    /\ dpos <= Len(Body(dmethod))
    /\ LET c == Body(dmethod)[dpos]
       IN  /\ bus' = Append(bus, c)
           /\ dpos' = dpos + 1
           /\ regPtr' = IF /\ c[1] = "write"
                           /\ bus # << >>
                           /\ bus[Len(bus)][1] = "beginTransmission"
                        THEN c[2] ELSE regPtr
           /\ IF c[1] = "read"
              THEN \E v \in SensorVals :
                     /\ dret' = Append(dret, v)
                     /\ sensed' = IF regPtr \in DOMAIN sensed
                                  THEN [sensed EXCEPT ![regPtr] = v] ELSE sensed
              ELSE UNCHANGED <<dret, sensed>>
    /\ UNCHANGED <<pc, retpc, dmethod, dactive, sketchVars, efuseMac, prevSensed>>

\* the method returns to its caller
DriverReturn ==
    /\ dactive
    /\ dpos > Len(Body(dmethod))
    /\ dactive' = FALSE
    /\ pc' = retpc
    /\ UNCHANGED <<retpc, dmethod, dpos, dret, bus, regPtr, sensed, sketchVars, efuseMac, prevSensed>>

-----------------------------------------------------------------------------
(* The sketch: setup()                                                     *)

\* what a step of the sketch itself leaves alone
NoDriver == UNCHANGED <<retpc, driverVars, efuseMac, prevSensed>>

\* displayStatus(status)
displayStatus(status) == display' = [kind |-> "status", text |-> status]

\* displaySPL(db, dbmin, dbmax)
displaySPL(d, dmin, dmax) ==
    display' = [kind |-> "spl", db |-> d, dbmin |-> dmin, dbmax |-> dmax]

\* delay(1000); ESP.restart(); the chip resets and setup() runs again
Restart ==
    /\ pc = "restart"
    /\ pc' = "setup"
    /\ dataBuf' = [i \in 0..(PACKET_SIZE - 1) |-> 0]
    /\ rsp' = NoCell
    /\ db' = 0 /\ dbmin' = 0 /\ dbmax' = 0
    /\ regState' = "none"
    /\ display' = [kind |-> "off"]
    /\ lastOp' = NoOp
    /\ lteRet' = "none"
    /\ bootlog' = {}
    /\ iterlog' = << >>
    /\ sensed' = NoSensed
    /\ sent' = << >>
    /\ prevSensed' = NoSensed
    /\ macRead' = FALSE
    /\ UNCHANGED <<retpc, driverVars, efuseMac>>

\* Serial.begin .. Wire1.begin: serial port, sensor power pins, 3V3 output
setup_pins ==
    /\ pc = "setup"
    /\ pc' = "setup_screen"
    /\ bootlog' = bootlog \cup {"pins"}
    /\ UNCHANGED <<dataBuf, rsp, db, dbmin, dbmax, regState, display, lastOp, lteRet,
                   iterlog, sensed, sent, macRead>>
    /\ NoDriver

\* while(!screen.begin(...)) { delay(1000); }
setup_screen_begin ==
    /\ pc = "setup_screen"
    /\ \E ok \in BOOLEAN :
         /\ lastOp' = [name |-> "screen.begin", ok |-> ok]
         /\ pc' = IF ok THEN "setup_booting" ELSE "setup_screen"
         /\ bootlog' = IF ok THEN bootlog \cup {"display"} ELSE bootlog
    /\ UNCHANGED <<dataBuf, rsp, db, dbmin, dbmax, regState, display, lteRet,
                   iterlog, sensed, sent, macRead>>
    /\ NoDriver

\* displayStatus("Booting SPL v0.0.2"); delay(1000);
setup_status_booting ==
    /\ pc = "setup_booting"
    /\ displayStatus("Booting SPL v0.0.2")
    /\ pc' = "setup_dbm_begin"
    /\ UNCHANGED <<dataBuf, rsp, db, dbmin, dbmax, regState, lastOp, lteRet, bootlog,
                   iterlog, sensed, sent, macRead>>
    /\ NoDriver

\* dbmeter.begin();
setup_dbmeter_begin ==
    /\ pc = "setup_dbm_begin"
    /\ Call("begin", 0, "setup_getVersion")
    /\ UNCHANGED <<sketchVars, sensed, efuseMac, prevSensed>>

\* Serial.printf(..., dbmeter.getVersion());
setup_getVersion ==
    /\ pc = "setup_getVersion"
    /\ Call("getVersion", 0, "setup_setAvg")
    /\ UNCHANGED <<sketchVars, sensed, efuseMac, prevSensed>>

\* dbmeter.setAveragingInterval(1000);
setup_setAveragingInterval ==
    /\ pc = "setup_setAvg"
    /\ Call("setAveragingInterval", 1000, "setup_reset")
    /\ UNCHANGED <<sketchVars, sensed, efuseMac, prevSensed>>

\* dbmeter.resetMinMax();
setup_resetMinMax ==
    /\ pc = "setup_reset"
    /\ Call("resetMinMax", 0, "setup_mac")
    /\ UNCHANGED <<sketchVars, sensed, efuseMac, prevSensed>>

\* esp_read_mac(dataBuf, ESP_MAC_WIFI_STA): six bytes at dataBuf[0..5]
esp_read_mac(buf) == [i \in DOMAIN buf |-> IF i < 6 THEN efuseMac[i] ELSE buf[i]]

setup_read_mac ==
    /\ pc = "setup_mac"
    /\ dataBuf' = esp_read_mac(dataBuf)
    /\ macRead' = TRUE
    /\ pc' = "setup_status_modem"
    /\ UNCHANGED <<rsp, db, dbmin, dbmax, regState, display, lastOp, lteRet, bootlog,
                   iterlog, sensed, sent>>
    /\ NoDriver

\* displayStatus("Starting modem...");
setup_status_modem ==
    /\ pc = "setup_status_modem"
    /\ displayStatus("Starting modem...")
    /\ pc' = "setup_modem"
    /\ UNCHANGED <<dataBuf, rsp, db, dbmin, dbmax, regState, lastOp, lteRet, bootlog,
                   iterlog, sensed, sent, macRead>>
    /\ NoDriver

\* the else branch lost: setup() goes on after a failed modem.begin
setup_onModemBegin_noRestart(ok) == "setup_getRAT"

\* if(modem.begin(&ModemSerial)) {...} else { delay(1000); ESP.restart(); return; }
setup_onModemBegin(ok) == IF ok THEN "setup_getRAT" ELSE "restart"

setup_modem_begin ==
    /\ pc = "setup_modem"
    /\ \E ok \in BOOLEAN :
         /\ lastOp' = [name |-> "modem.begin", ok |-> ok]
         /\ pc' = setup_onModemBegin(ok)
         /\ bootlog' = IF ok THEN bootlog \cup {"modem"} ELSE bootlog
    /\ UNCHANGED <<dataBuf, rsp, db, dbmin, dbmax, regState, display, lteRet,
                   iterlog, sensed, sent, macRead>>
    /\ NoDriver

\* if(modem.getRAT(&rsp)) { if(rsp.data.rat != RADIO_TECHNOLOGY) setRAT } else log
setup_getRAT ==
    /\ pc = "setup_getRAT"
    /\ \E ok \in BOOLEAN, isLTEM \in BOOLEAN :
         /\ lastOp' = [name |-> "getRAT", ok |-> ok]
         /\ pc' = IF ok /\ ~isLTEM THEN "setup_setRAT" ELSE "setup_pdp"
    /\ UNCHANGED <<dataBuf, rsp, db, dbmin, dbmax, regState, display, lteRet, bootlog,
                   iterlog, sensed, sent, macRead>>
    /\ NoDriver

\* modem.setRAT(RADIO_TECHNOLOGY); the result is not looked at
setup_setRAT ==
    /\ pc = "setup_setRAT"
    /\ \E ok \in BOOLEAN : lastOp' = [name |-> "setRAT", ok |-> ok]
    /\ pc' = "setup_pdp"
    /\ UNCHANGED <<dataBuf, rsp, db, dbmin, dbmax, regState, display, lteRet, bootlog,
                   iterlog, sensed, sent, macRead>>
    /\ NoDriver

\* if(!modem.createPDPContext("")) { delay(1000); ESP.restart(); return; }
setup_onCreatePDPContext(ok) == IF ok THEN "setup_status_connect" ELSE "restart"

setup_createPDPContext ==
    /\ pc = "setup_pdp"
    /\ \E ok \in BOOLEAN :
         /\ lastOp' = [name |-> "createPDPContext", ok |-> ok]
         /\ pc' = setup_onCreatePDPContext(ok)
    /\ UNCHANGED <<dataBuf, rsp, db, dbmin, dbmax, regState, display, lteRet, bootlog,
                   iterlog, sensed, sent, macRead>>
    /\ NoDriver

\* displayStatus("Connecting...");
setup_status_connect ==
    /\ pc = "setup_status_connect"
    /\ displayStatus("Connecting...")
    /\ pc' = "lteConnect_setOpState"
    /\ UNCHANGED <<dataBuf, rsp, db, dbmin, dbmax, regState, lastOp, lteRet, bootlog,
                   iterlog, sensed, sent, macRead>>
    /\ NoDriver

\* the result of lteConnect() ignored
setup_onLteConnect_ignored(ret) == "loop"

\* if(!lteConnect()) { delay(1000); ESP.restart(); return; }  else setup() ends
\* and loop() is called
setup_onLteConnect(ret) == IF ret THEN "loop" ELSE "restart"

\* lteConnect() returns ret to setup()
lteConnect_return(ret) ==
    /\ lteRet' = IF ret THEN "true" ELSE "false"
    /\ pc' = setup_onLteConnect(ret)
    /\ bootlog' = IF ret THEN bootlog \cup {"attach"} ELSE bootlog

\* if(!modem.setOpState(WALTER_MODEM_OPSTATE_FULL)) return false;
lteConnect_setOpState ==
    /\ pc = "lteConnect_setOpState"
    /\ \E ok \in BOOLEAN :
         /\ lastOp' = [name |-> "setOpState", ok |-> ok]
         /\ IF ok
            THEN pc' = "lteConnect_setNetSel" /\ UNCHANGED <<lteRet, bootlog>>
            ELSE lteConnect_return(FALSE)
    /\ UNCHANGED <<dataBuf, rsp, db, dbmin, dbmax, regState, display,
                   iterlog, sensed, sent, macRead>>
    /\ NoDriver

\* if(!modem.setNetworkSelectionMode(AUTOMATIC)) return false;
lteConnect_setNetworkSelectionMode ==
    /\ pc = "lteConnect_setNetSel"
    /\ \E ok \in BOOLEAN :
         /\ lastOp' = [name |-> "setNetworkSelectionMode", ok |-> ok]
         /\ IF ok
            THEN pc' = "lteConnect_poll" /\ UNCHANGED <<lteRet, bootlog>>
            ELSE lteConnect_return(FALSE)
    /\ UNCHANGED <<dataBuf, rsp, db, dbmin, dbmax, regState, display,
                   iterlog, sensed, sent, macRead>>
    /\ NoDriver

\* regState = modem.getNetworkRegState(); (the first poll, and each poll after
\* delay(100) in the loop)
lteConnect_getNetworkRegState ==
    /\ pc = "lteConnect_poll"
    /\ regState' \in RegStates
    /\ pc' = "lteConnect_while"
    /\ UNCHANGED <<dataBuf, rsp, db, dbmin, dbmax, display, lastOp, lteRet, bootlog,
                   iterlog, sensed, sent, macRead>>
    /\ NoDriver

\* roaming registration forgotten
lteConnect_registered_homeOnly(r) == r = "REGISTERED_HOME"

\* the condition of the while loop: TRUE when the loop is left
lteConnect_registered(r) == r = "REGISTERED_HOME" \/ r = "REGISTERED_ROAMING"

\* while(!(registered)) { delay(100); poll }  ...  return true;
lteConnect_while ==
    /\ pc = "lteConnect_while"
    /\ IF lteConnect_registered(regState)
       THEN lteConnect_return(TRUE)
       ELSE pc' = "lteConnect_poll" /\ UNCHANGED <<lteRet, bootlog>>
    /\ UNCHANGED <<dataBuf, rsp, db, dbmin, dbmax, regState, display, lastOp,
                   iterlog, sensed, sent, macRead>>
    /\ NoDriver

-----------------------------------------------------------------------------
(* The sketch: loop()                                                      *)

\* uint8_t db = dbmeter.readDecibel();  (a new iteration starts: its locals and
\* the records of the iteration are fresh)
loop_readDecibel ==
    /\ pc = "loop"
    /\ Call("readDecibel", 0, "loop_db")
    /\ iterlog' = <<"readDecibel">>
    /\ prevSensed' = sensed
    /\ sensed' = NoSensed
    /\ sent' = << >>
    /\ UNCHANGED <<dataBuf, rsp, db, dbmin, dbmax, regState, display, lastOp, lteRet,
                   bootlog, macRead, efuseMac>>

\* db = <returned byte>; uint8_t dbmin = dbmeter.readMinDecibel();
loop_readMinDecibel ==
    /\ pc = "loop_db"
    /\ db' = dret[1]
    /\ Call("readMinDecibel", 0, "loop_dbmin")
    /\ iterlog' = Append(iterlog, "readMinDecibel")
    /\ UNCHANGED <<dataBuf, rsp, dbmin, dbmax, regState, display, lastOp, lteRet,
                   bootlog, sensed, sent, macRead, efuseMac, prevSensed>>

\* dbmin = <returned byte>; uint8_t dbmax = dbmeter.readMaxDecibel();
loop_readMaxDecibel ==
    /\ pc = "loop_dbmin"
    /\ dbmin' = dret[1]
    /\ Call("readMaxDecibel", 0, "loop_dbmax")
    /\ iterlog' = Append(iterlog, "readMaxDecibel")
    /\ UNCHANGED <<dataBuf, rsp, db, dbmax, regState, display, lastOp, lteRet,
                   bootlog, sensed, sent, macRead, efuseMac, prevSensed>>

\* dbmax = <returned byte>; Serial.printf(...); displayStatus("Transmitting...");
loop_status_transmitting ==
    /\ pc = "loop_dbmax"
    /\ dbmax' = dret[1]
    /\ displayStatus("Transmitting...")
    /\ iterlog' = Append(iterlog, "displayStatus")
    /\ pc' = "loop_reset"
    /\ UNCHANGED <<dataBuf, rsp, db, dbmin, regState, lastOp, lteRet, bootlog,
                   sensed, sent, macRead>>
    /\ NoDriver

\* dbmeter.resetMinMax();
loop_resetMinMax ==
    /\ pc = "loop_reset"
    /\ Call("resetMinMax", 0, "loop_packet")
    /\ iterlog' = Append(iterlog, "resetMinMax")
    /\ UNCHANGED <<dataBuf, rsp, db, dbmin, dbmax, regState, display, lastOp, lteRet,
                   bootlog, sensed, sent, macRead, efuseMac, prevSensed>>

\* minimum and maximum swapped
sensorPacket_swapped(buf, d, dmin, dmax) ==
    [buf EXCEPT ![6] = d, ![7] = dmax, ![8] = dmin]

\* indices off by one
sensorPacket_offByOne(buf, d, dmin, dmax) ==
    [buf EXCEPT ![5] = d, ![6] = dmin, ![7] = dmax]

\* dataBuf[6] = db; dataBuf[7] = dbmin; dataBuf[8] = dbmax;
sensorPacket(buf, d, dmin, dmax) ==
    [buf EXCEPT ![6] = d, ![7] = dmin, ![8] = dmax]

loop_sensorPacket ==
    /\ pc = "loop_packet"
    /\ dataBuf' = sensorPacket(dataBuf, db, dbmin, dbmax)
    /\ pc' = "loop_cell1"
    /\ UNCHANGED <<rsp, db, dbmin, dbmax, regState, display, lastOp, lteRet, bootlog,
                   iterlog, sensed, sent, macRead>>
    /\ NoDriver

\* "Add monitor data to packet": dataBuf[9..19] from rsp.data.cellInformation
monitorData(buf, ci) ==
    [buf EXCEPT ![9] = Byte(ci.cc \div 256),
                ![10] = ci.cc % 256,
                ![11] = Byte(ci.nc \div 256),
                ![12] = ci.nc % 256,
                ![13] = Byte(ci.tac \div 256),
                ![14] = ci.tac % 256,
                ![15] = (ci.cid \div 16777216) % 256,
                ![16] = (ci.cid \div 65536) % 256,
                ![17] = (ci.cid \div 256) % 256,
                ![18] = ci.cid % 256,
                ![19] = Byte((-ci.rsrp) \div 10)]

\* if(!modem.getCellInformation(..., &rsp)) log  else { log; monitor data }
getCellInformation(next) ==
    /\ \E ok \in BOOLEAN :
         /\ lastOp' = [name |-> "getCellInformation", ok |-> ok]
         /\ IF ok
            THEN \E ci \in Cells : rsp' = ci /\ dataBuf' = monitorData(dataBuf, ci)
            ELSE UNCHANGED <<rsp, dataBuf>>
    /\ iterlog' = Append(iterlog, "getCellInformation")
    /\ pc' = next
    /\ UNCHANGED <<db, dbmin, dbmax, regState, display, lteRet, bootlog,
                   sensed, sent, macRead>>
    /\ NoDriver

\* the query before the socket is opened
loop_getCellInformation ==
    /\ pc = "loop_cell1"
    /\ getCellInformation("socketConnect_create")

\* if(!socketConnect(SERV_ADDR, SERV_PORT)) { delay(1000); ESP.restart(); return; }
loop_onSocketConnect(ret) == IF ret THEN "loop_send" ELSE "restart"

\* a status-returning modem call of socketConnect(): on failure return false
socketConnect_step(at, name, next) ==
    /\ pc = at
    /\ \E ok \in BOOLEAN :
         /\ lastOp' = [name |-> name, ok |-> ok]
         /\ pc' = IF ok THEN next ELSE loop_onSocketConnect(FALSE)
    /\ UNCHANGED <<dataBuf, rsp, db, dbmin, dbmax, regState, display, lteRet, bootlog,
                   iterlog, sensed, sent, macRead>>
    /\ NoDriver

\* if(!modem.createSocket()) return false;
socketConnect_createSocket ==
    socketConnect_step("socketConnect_create", "createSocket", "socketConnect_config")

\* if(!modem.configSocket()) return false;
socketConnect_configSocket ==
    socketConnect_step("socketConnect_config", "configSocket", "socketConnect_connect")

\* if(modem.connectSocket(ip, port, port)) {...} else return false;  return true;
socketConnect_connectSocket ==
    /\ pc = "socketConnect_connect"
    /\ \E ok \in BOOLEAN :
         /\ lastOp' = [name |-> "connectSocket", ok |-> ok]
         /\ pc' = loop_onSocketConnect(ok)
         /\ iterlog' = IF ok THEN Append(iterlog, "socketConnect") ELSE iterlog
    /\ UNCHANGED <<dataBuf, rsp, db, dbmin, dbmax, regState, display, lteRet, bootlog,
                   sensed, sent, macRead>>
    /\ NoDriver

\* the bytes modem.socketSend(data, size) is handed
socketSend(data, size) == [i \in 1..size |-> data[i - 1]]

\* a failed send is logged and the iteration goes on
loop_onSocketSend_noRestart(ok) == "loop_cell2"

\* if(!modem.socketSend(dataBuf, PACKET_SIZE)) { delay(1000); ESP.restart(); return; }
\* delay(5000);
loop_onSocketSend(ok) == IF ok THEN "loop_cell2" ELSE "restart"

loop_socketSend ==
    /\ pc = "loop_send"
    /\ sent' = socketSend(dataBuf, PACKET_SIZE)
    /\ iterlog' = Append(iterlog, "socketSend")
    /\ \E ok \in BOOLEAN :
         /\ lastOp' = [name |-> "socketSend", ok |-> ok]
         /\ pc' = loop_onSocketSend(ok)
    /\ UNCHANGED <<dataBuf, rsp, db, dbmin, dbmax, regState, display, lteRet, bootlog,
                   sensed, macRead>>
    /\ NoDriver

\* "Sometimes cell information is only available only after transmit"
loop_getCellInformation_after ==
    /\ pc = "loop_cell2"
    /\ getCellInformation("loop_close")

\* if(!modem.closeSocket()) { delay(1000); ESP.restart(); return; }
loop_onCloseSocket(ok) == IF ok THEN "loop_displaySPL" ELSE "restart"

loop_closeSocket ==
    /\ pc = "loop_close"
    /\ iterlog' = Append(iterlog, "closeSocket")
    /\ \E ok \in BOOLEAN :
         /\ lastOp' = [name |-> "closeSocket", ok |-> ok]
         /\ pc' = loop_onCloseSocket(ok)
    /\ UNCHANGED <<dataBuf, rsp, db, dbmin, dbmax, regState, display, lteRet, bootlog,
                   sensed, sent, macRead>>
    /\ NoDriver

\* displaySPL(db, dbmin, dbmax);
loop_displaySPL ==
    /\ pc = "loop_displaySPL"
    /\ displaySPL(db, dbmin, dbmax)
    /\ iterlog' = Append(iterlog, "displaySPL")
    /\ pc' = "loop_sleep"
    /\ UNCHANGED <<dataBuf, rsp, db, dbmin, dbmax, regState, lastOp, lteRet, bootlog,
                   sensed, sent, macRead>>
    /\ NoDriver

\* delay(60000); loop() returns and is called again; its locals are gone
loop_delay ==
    /\ pc = "loop_sleep"
    /\ iterlog' = Append(iterlog, "delay")
    /\ db' = 0 /\ dbmin' = 0 /\ dbmax' = 0
    /\ pc' = "loop"
    /\ UNCHANGED <<dataBuf, rsp, regState, display, lastOp, lteRet, bootlog,
                   sensed, sent, macRead>>
    /\ NoDriver

-----------------------------------------------------------------------------
(* Specifications *)

\* the state at power-on, before setup()
Init ==
    /\ pc = "setup"
    /\ retpc = "setup"
    /\ dataBuf = [i \in 0..(PACKET_SIZE - 1) |-> 0]
    /\ rsp = NoCell
    /\ db = 0 /\ dbmin = 0 /\ dbmax = 0
    /\ regState = "none"
    /\ display = [kind |-> "off"]
    /\ efuseMac \in Macs
    /\ dmethod = NoMethod
    /\ dactive = FALSE
    /\ dpos = 1
    /\ dret = << >>
    /\ bus = << >>
    /\ regPtr = 0
    /\ lastOp = NoOp
    /\ lteRet = "none"
    /\ bootlog = {}
    /\ iterlog = << >>
    /\ sensed = NoSensed
    /\ sent = << >>
    /\ prevSensed = NoSensed
    /\ macRead = FALSE

Next ==
    \/ setup_pins
    \/ setup_screen_begin
    \/ setup_status_booting
    \/ setup_dbmeter_begin
    \/ setup_getVersion
    \/ setup_setAveragingInterval
    \/ setup_resetMinMax
    \/ setup_read_mac
    \/ setup_status_modem
    \/ setup_modem_begin
    \/ setup_getRAT
    \/ setup_setRAT
    \/ setup_createPDPContext
    \/ setup_status_connect
    \/ lteConnect_setOpState
    \/ lteConnect_setNetworkSelectionMode
    \/ lteConnect_getNetworkRegState
    \/ lteConnect_while
    \/ loop_readDecibel
    \/ loop_readMinDecibel
    \/ loop_readMaxDecibel
    \/ loop_status_transmitting
    \/ loop_resetMinMax
    \/ loop_sensorPacket
    \/ loop_getCellInformation
    \/ socketConnect_createSocket
    \/ socketConnect_configSocket
    \/ socketConnect_connectSocket
    \/ loop_socketSend
    \/ loop_getCellInformation_after
    \/ loop_closeSocket
    \/ loop_displaySPL
    \/ loop_delay
    \/ WireStep
    \/ DriverReturn
    \/ Restart

Spec == Init /\ [][Next]_vars

\* the single thread of the firmware always runs its next step
FairSpec == Spec /\ WF_vars(Next)

\* The driver on its own: a caller that invokes any public method of
\* DecibelMeter, one after the other.
AveragingIntervals == {1000, 125, 65535}

DriverCall ==
    /\ pc = "caller"
    /\ \E name \in {"begin", "getVersion", "getID", "readDecibel", "readMinDecibel",
                    "readMaxDecibel", "resetMinMax"} : Call(name, 0, "caller")
    /\ UNCHANGED <<sketchVars, sensed, efuseMac, prevSensed>>

DriverCallSetAveragingInterval ==
    /\ pc = "caller"
    /\ \E ms \in AveragingIntervals : Call("setAveragingInterval", ms, "caller")
    /\ UNCHANGED <<sketchVars, sensed, efuseMac, prevSensed>>

DriverInit ==
    /\ pc = "caller"
    /\ retpc = "caller"
    /\ dataBuf = [i \in 0..(PACKET_SIZE - 1) |-> 0]
    /\ rsp = NoCell
    /\ db = 0 /\ dbmin = 0 /\ dbmax = 0
    /\ regState = "none"
    /\ display = [kind |-> "off"]
    /\ efuseMac \in Macs
    /\ dmethod = NoMethod
    /\ dactive = FALSE
    /\ dpos = 1
    /\ dret = << >>
    /\ bus = << >>
    /\ regPtr = 0
    /\ lastOp = NoOp
    /\ lteRet = "none"
    /\ bootlog = {}
    /\ iterlog = << >>
    /\ sensed = NoSensed
    /\ sent = << >>
    /\ prevSensed = NoSensed
    /\ macRead = FALSE

DriverNext == DriverCall \/ DriverCallSetAveragingInterval \/ WireStep \/ DriverReturn

DriverSpec == DriverInit /\ [][DriverNext]_vars

-----------------------------------------------------------------------------
(* Properties *)

SetupPcs == {"setup", "setup_screen", "setup_booting", "setup_dbm_begin",
             "setup_getVersion", "setup_setAvg", "setup_reset", "setup_mac",
             "setup_status_modem", "setup_modem", "setup_getRAT", "setup_setRAT",
             "setup_pdp", "setup_status_connect", "lteConnect_setOpState",
             "lteConnect_setNetSel", "lteConnect_poll", "lteConnect_while"}

LoopPcs == {"loop", "loop_db", "loop_dbmin", "loop_dbmax", "loop_reset",
            "loop_packet", "loop_cell1", "socketConnect_create",
            "socketConnect_config", "socketConnect_connect", "loop_send",
            "loop_cell2", "loop_close", "loop_displaySPL", "loop_sleep"}

\* loop() is running (possibly inside a driver method it called)
InLoop == pc \in LoopPcs \/ (pc = "driver" /\ retpc \in LoopPcs)

\* a loop() iteration has run to its end
IterationDone == pc = "loop" /\ iterlog # << >>

Failed(name) == lastOp.ok = FALSE /\ lastOp.name = name

RECURSIVE IsSubseq(_, _)
IsSubseq(a, b) ==
    IF a = << >> THEN TRUE
    ELSE IF b = << >> THEN FALSE
    ELSE IF Head(a) = Head(b) THEN IsSubseq(Tail(a), Tail(b))
    ELSE IsSubseq(a, Tail(b))

Count(seq, x) == Cardinality({i \in 1..Len(seq) : seq[i] = x})

\* C1 (as stated): whenever an operation of setup() or loop() fails, the device
\* is at its restart and nothing else has run since the failure.
C1_AnyFailureRestarts == lastOp.ok = FALSE => pc = "restart"

C1_FatalOps == {"modem.begin", "createPDPContext", "setOpState",
                "setNetworkSelectionMode", "createSocket", "configSocket",
                "connectSocket", "socketSend", "closeSocket"}

C1_AfterFailure ==
    /\ (lastOp.ok = FALSE /\ lastOp.name \in C1_FatalOps) => pc = "restart"
    /\ Failed("screen.begin") => pc = "setup_screen"
    /\ Failed("getRAT") => pc = "setup_pdp"
    /\ Failed("setRAT") => pc = "setup_pdp"
    /\ Failed("getCellInformation") => pc \in {"socketConnect_create", "loop_close"}
    /\ lastOp.ok = FALSE =>
         lastOp.name \in C1_FatalOps
             \cup {"screen.begin", "getRAT", "setRAT", "getCellInformation"}

\* C1 (amended): a failure of modem begin, PDP context creation, network attach
\* (setOpState, setNetworkSelectionMode), socket create/config/connect, send or
\* close leads straight to the restart, with no retry and no later step before
\* it; a failed display init is retried, and a failed RAT query, RAT switch or
\* cell-information query lets the sequence continue with its next step.
C1_FatalFailureRestarts ==
    /\ []C1_AfterFailure
    /\ [][pc = "restart" => (pc' = "setup" /\ lastOp' = NoOp /\ bootlog' = {})]_vars

C1_Witness == Failed("socketSend") /\ pc = "restart" /\ sent # << >>

C2_BootStages == {"pins", "display", "modem", "attach"}

C2_Order == <<"readDecibel", "readMinDecibel", "readMaxDecibel", "getCellInformation",
              "socketConnect", "socketSend", "closeSocket", "displaySPL", "delay">>

\* C2: loop() runs only after pin setup, display init, modem init and network
\* attach have succeeded in this boot, and an iteration that ran to its end did:
\* sensor reads, cell query, socket open, send, close, display of the readings,
\* sleep, in this order, each of them (but the cell query) once.
C2_BootThenOrderedLoop ==
    /\ InLoop => bootlog = C2_BootStages
    /\ IterationDone =>
         /\ IsSubseq(C2_Order, iterlog)
         /\ \A x \in {C2_Order[i] : i \in 1..Len(C2_Order)} \ {"getCellInformation"} :
              Count(iterlog, x) = 1
         /\ display = [kind |-> "spl", db |-> sensed[DBM_REG_DECIBEL],
                       dbmin |-> sensed[DBM_REG_MIN], dbmax |-> sensed[DBM_REG_MAX]]

C2_Witness == IterationDone /\ display.kind = "spl" /\ display.db = 100

\* C3: every packet handed to socketSend is 20 bytes long and its bytes 6, 7, 8
\* are the current, minimum and maximum decibel bytes the sensor returned in
\* this iteration.
C3_PacketHoldsThisIterationsReadings ==
    sent # << >> =>
      /\ Len(sent) = 20
      /\ sensed[DBM_REG_DECIBEL] # -1 /\ sent[7] = sensed[DBM_REG_DECIBEL]
      /\ sensed[DBM_REG_MIN] # -1 /\ sent[8] = sensed[DBM_REG_MIN]
      /\ sensed[DBM_REG_MAX] # -1 /\ sent[9] = sensed[DBM_REG_MAX]

\* a packet of a later iteration whose readings all differ from the ones before
C3_Witness ==
    /\ sent # << >>
    /\ prevSensed[DBM_REG_DECIBEL] = 0 /\ sent[7] = 100
    /\ prevSensed[DBM_REG_MIN] = 100 /\ sent[8] = 0
    /\ prevSensed[DBM_REG_MAX] = 0 /\ sent[9] = 100

C4_SentMac == sent # << >> => \A i \in 0..5 : sent[i + 1] = efuseMac[i]

\* C4: bytes 0..5 of every packet sent are the MAC address read in setup(), and
\* once the MAC is read no step writes dataBuf[0..5] (until the next boot).
C4_MacBytesNeverOverwritten ==
    /\ []C4_SentMac
    /\ [][(macRead /\ macRead') => \A i \in 0..5 : dataBuf'[i] = dataBuf[i]]_vars

C4_Witness == sent # << >> /\ macRead /\ efuseMac = MacOf(2) /\ sent[1] = efuseMac[0]

C5_Registered == {"REGISTERED_HOME", "REGISTERED_ROAMING"}

\* C5: lteConnect() returns true only when the last polled registration state
\* is REGISTERED_HOME or REGISTERED_ROAMING, returns false only when setOpState
\* or setNetworkSelectionMode failed, and once a poll gives a registered state
\* it returns.
C5_LteConnectBlocksUntilAttached ==
    /\ [](lteRet = "true" => regState \in C5_Registered)
    /\ [](lteRet = "false" =>
            (Failed("setOpState") \/ Failed("setNetworkSelectionMode")))
    /\ [](pc \in {"lteConnect_poll", "lteConnect_while"} => lteRet = "none")
    /\ ((pc = "lteConnect_while" /\ regState \in C5_Registered) ~> lteRet = "true")

C5_Witness == lteRet = "true" /\ regState = "REGISTERED_ROAMING" /\ pc = "loop"

\* C6: socketConnect() runs only in a boot in which lteConnect() returned true.
C6_SocketConnectAfterLteConnect ==
    pc \in {"socketConnect_create", "socketConnect_config", "socketConnect_connect"}
        => lteRet = "true"

C6_Witness == pc = "socketConnect_connect" /\ lteRet = "true"

\* the registers each reading method reads, in order
C7_Registers(name) ==
    CASE name = "getVersion" -> <<0>>
      [] name = "getID" -> <<1, 2, 3, 4>>
      [] name = "readDecibel" -> <<10>>
      [] name = "readMinDecibel" -> <<11>>
      [] name = "readMaxDecibel" -> <<12>>
      [] OTHER -> << >>

\* the i-th bus event of a read of register reg
C7_EventOk(e, i, reg) ==
    CASE i = 1 -> e = <<"beginTransmission", 72>>
      [] i = 2 -> e = <<"write", reg>>
      [] i = 3 -> e = <<"endTransmission">>
      [] i = 4 -> e = <<"requestFrom", 72, 1>>
      [] i = 5 -> e[1] = "delay"
      [] OTHER -> e = <<"read">>

\* C7: the bus traffic of a reading method is, for each of its registers in
\* turn, exactly: a write transaction to 0x48 with the register address alone,
\* a request for one byte from 0x48, a delay, one read.
C7_ReadIsOneBusSequence ==
    LET regs == C7_Registers(dmethod.name)
    IN  regs # << >> =>
          /\ Len(bus) <= 6 * Len(regs)
          /\ \A j \in 1..Len(bus) :
               C7_EventOk(bus[j], ((j - 1) % 6) + 1, regs[((j - 1) \div 6) + 1])
          /\ ~dactive => (Len(bus) = 6 * Len(regs) /\ Len(dret) = Len(regs))

C7_Witness ==
    /\ ~dactive /\ dmethod.name = "getID" /\ Len(bus) = 24
    /\ dret[1] = 100 /\ dret[2] = 0

====
